---- MODULE Spec2Model ----
(***************************************************************************)
(* Model of the CollectX survey server: the file store (store.ts), the     *)
(* Survey and Authorization classes (survey.ts) and the express routes     *)
(* that call them.                                                         *)
(*                                                                         *)
(* JavaScript values are tagged records [t |-> tag, v |-> payload] so that *)
(* truthiness, undefined and JSON serialisation behave as in the runtime.  *)
(* uuidv4() is modelled as a fresh counter value: uuids do not collide.    *)
(* Date.now() is the variable now, which only moves forward.               *)
(***************************************************************************)
EXTENDS Integers, Sequences, FiniteSets, TLC

\* ---------------------------------------------------------------- bounds
NumReq == 2          \* request slots that may be in flight in POST /survey
MaxRecords == 2      \* uuids handed out in one run
MaxTime == 2         \* last value of the clock

Procs == 1..NumReq

\* ------------------------------------------------------ JavaScript values
Undef == [t |-> "undef"]
Null == [t |-> "null"]
Str(s) == [t |-> "str", v |-> s]
Num(n) == [t |-> "num", v |-> n]
Arr(s) == [t |-> "arr", v |-> s]
Obj(o) == [t |-> "obj", v |-> o]
Uuid(n) == [t |-> "uuid", v |-> n]

\* !x is false exactly for the truthy values
Truthy(x) ==
    CASE x.t = "undef" -> FALSE
      [] x.t = "null" -> FALSE
      [] x.t = "num" -> x.v # 0
      [] x.t = "str" -> x.v # ""
      [] OTHER -> TRUE

\* Array.isArray(x)
IsArray(x) == x.t = "arr"

\* JSON.stringify of an object drops the properties whose value is undefined
JSONStringify(o) == [k \in {f \in DOMAIN o : o[f].t # "undef"} |-> o[k]]

Range(s) == {s[i] : i \in DOMAIN s}

\* ------------------------------------------------------------ file names
\* A file name is a sequence of pieces, so that a RegExp anchored at the
\* start of the name is a prefix test on the sequence.
SurveyFile == <<"survey.json">>
QuestionFile(surveyName) == surveyName \o <<"_question.json">>
IsPrefix(a, b) == Len(a) <= Len(b) /\ SubSeq(b, 1, Len(a)) = a

VARIABLES
    disk,               \* the data directory: file name -> file content
    pc,                 \* per request slot: "idle", "read" or "write"
    newData,            \* per slot: the record Survey.save built
    fileData,           \* per slot: what Store.save read from the file
    nextId,             \* the next uuid
    now,                \* Date.now()
    authorizationMap,   \* own properties of Authorization.authorizationMap
    resp,               \* what the last step answered
    acked,              \* history: records whose submit answered code 0
    raced,              \* history: some write used a read that was stale
    lastRole            \* history: role of the last accepted setRole per user

vars == <<disk, pc, newData, fileData, nextId, now, authorizationMap, resp,
          acked, raced, lastRole>>

\* ------------------------------------------------------------- responses
Envelope(code, data) == [code |-> code, data |-> data]

NoResp ==
    [op |-> "none", arg |-> Undef, kind |-> "none", status |-> 0,
     code |-> 0, data |-> Undef, err |-> ""]

\* the handler took the request and is waiting on the file system
Accepted(arg) == [NoResp EXCEPT !.op = "accepted", !.arg = arg]

\* res.json(body): the status defaults to 200
Json(op, arg, env) ==
    [op |-> op, arg |-> arg, kind |-> "sent", status |-> 200,
     code |-> env.code, data |-> env.data, err |-> ""]

\* res.status(status).json(body): a status outside 100..999 is refused by
\* the HTTP layer with a RangeError and nothing is sent
StatusJson(op, arg, status, env) ==
    IF status \in 100..999
    THEN [op |-> op, arg |-> arg, kind |-> "sent", status |-> status,
          code |-> env.code, data |-> env.data, err |-> ""]
    ELSE [op |-> op, arg |-> arg, kind |-> "throw", status |-> status,
          code |-> env.code, data |-> env.data, err |-> "RangeError"]

\* an error that leaves the handler: no response is sent
Throw(op, arg, err) ==
    [op |-> op, arg |-> arg, kind |-> "throw", status |-> 0,
     code |-> 0, data |-> Undef, err |-> err]

\* ----------------------------------------------------------------- Store
\* the records of survey.json as a reader would see them, <<>> if unreadable
Content ==
    IF SurveyFile \in DOMAIN disk /\ disk[SurveyFile].t = "json"
    THEN disk[SurveyFile].v
    ELSE <<>>

\* Store.readFromFile: only ENOENT is turned into [], the rest is rethrown.
\* ioerr: fs.readFile fails with an error whose code is not ENOENT.
ReadFromFileSwallow(ioerr) ==
    IF ~ioerr /\ SurveyFile \in DOMAIN disk /\ disk[SurveyFile].t = "json"
    THEN [k |-> "ok", v |-> disk[SurveyFile].v, err |-> ""]
    ELSE [k |-> "ok", v |-> <<>>, err |-> ""]

ReadFromFile(ioerr) ==
    IF ioerr
    THEN [k |-> "throw", v |-> <<>>, err |-> "EIO"]
    ELSE IF SurveyFile \notin DOMAIN disk
    THEN [k |-> "ok", v |-> <<>>, err |-> ""]
    ELSE IF disk[SurveyFile].t # "json"
    THEN [k |-> "throw", v |-> <<>>, err |-> "SyntaxError"]
    ELSE [k |-> "ok", v |-> disk[SurveyFile].v, err |-> ""]

\* fs.writeFile(path, JSON.stringify(value, null, 4))
WriteFile(d, name, value) ==
    [f \in DOMAIN d \cup {name} |->
        IF f = name THEN [t |-> "json", v |-> value] ELSE d[f]]

\* ---------------------------------------------------------- POST /survey
Body(name, age, gender, surveyResult) ==
    [name |-> name, age |-> age, gender |-> gender,
     surveyResult |-> surveyResult]

\* Survey.save up to the first await inside Store.save
SurveySave(p, data) ==
    /\ nextId <= MaxRecords
    /\ newData' = [newData EXCEPT ![p] =
          [name |-> data.name, age |-> data.age, gender |-> data.gender,
           surveyResult |-> data.surveyResult,
           id |-> Uuid(nextId), createdAt |-> Num(now)]]
    /\ nextId' = nextId + 1
    /\ pc' = [pc EXCEPT ![p] = "read"]

\* the route with the surveyResult test left out
PostSurveyNoResultCheck(p, body) ==
    /\ pc[p] = "idle"
    /\ IF ~Truthy(body.name) \/ ~Truthy(body.age) \/ ~Truthy(body.gender)
       THEN /\ resp' = StatusJson("submit", Obj(body), 400, Envelope(400, Null))
            /\ UNCHANGED <<pc, newData, nextId>>
       ELSE /\ SurveySave(p, body)
            /\ resp' = Accepted(Obj(body))
    /\ UNCHANGED <<disk, fileData, now, authorizationMap, acked, raced,
                   lastRole>>

PostSurvey(p, body) ==
    /\ pc[p] = "idle"
    /\ IF ~Truthy(body.name) \/ ~Truthy(body.age) \/ ~Truthy(body.gender)
          \/ ~Truthy(body.surveyResult)
       THEN /\ resp' = StatusJson("submit", Obj(body), 400, Envelope(400, Null))
            /\ UNCHANGED <<pc, newData, nextId>>
       ELSE /\ SurveySave(p, body)
            /\ resp' = Accepted(Obj(body))
    /\ UNCHANGED <<disk, fileData, now, authorizationMap, acked, raced,
                   lastRole>>

\* Store.save, first half: await this.readFromFile()
StoreSaveRead(p, ioerr) ==
    /\ pc[p] = "read"
    /\ LET r == ReadFromFile(ioerr) IN
       IF r.k = "ok"
       THEN /\ fileData' = [fileData EXCEPT ![p] = r.v]
            /\ pc' = [pc EXCEPT ![p] = "write"]
            /\ resp' = NoResp
            /\ UNCHANGED newData
       ELSE /\ pc' = [pc EXCEPT ![p] = "idle"]
            /\ resp' = Throw("submit", Obj(newData[p]), r.err)
            /\ newData' = [newData EXCEPT ![p] = Undef]
            /\ UNCHANGED fileData
    /\ UNCHANGED <<disk, nextId, now, authorizationMap, acked, raced,
                   lastRole>>

\* Store.save writing the new record alone
StoreSaveWriteOnlyNew(p) ==
    /\ pc[p] = "write"
    /\ disk' = WriteFile(disk, SurveyFile, <<newData[p]>>)
    /\ resp' = Json("submit", Obj(newData[p]), Envelope(0, Obj(newData[p])))
    /\ acked' = acked \cup {newData[p]}
    /\ raced' = (raced \/ fileData[p] # Content)
    /\ pc' = [pc EXCEPT ![p] = "idle"]
    /\ newData' = [newData EXCEPT ![p] = Undef]
    /\ fileData' = [fileData EXCEPT ![p] = <<>>]
    /\ UNCHANGED <<nextId, now, authorizationMap, lastRole>>

\* Store.save, second half: write [...fileData, data]; then Survey.save
\* returns the envelope and the route sends it
StoreSaveWrite(p) ==
    /\ pc[p] = "write"
    /\ disk' = WriteFile(disk, SurveyFile, Append(fileData[p], newData[p]))
    /\ resp' = Json("submit", Obj(newData[p]), Envelope(0, Obj(newData[p])))
    /\ acked' = acked \cup {newData[p]}
    /\ raced' = (raced \/ fileData[p] # Content)
    /\ pc' = [pc EXCEPT ![p] = "idle"]
    /\ newData' = [newData EXCEPT ![p] = Undef]
    /\ fileData' = [fileData EXCEPT ![p] = <<>>]
    /\ UNCHANGED <<nextId, now, authorizationMap, lastRole>>

\* ----------------------------------------------------------- GET /survey
\* Array.prototype.sort is stable: x goes behind every element that the
\* comparator does not order after it. Cmp is (a, b) => b.createdAt - a.createdAt.
Cmp(a, b) == b.createdAt.v - a.createdAt.v

RECURSIVE Insert(_, _)
Insert(x, s) ==
    IF s = <<>> THEN <<x>>
    ELSE IF Cmp(s[Len(s)], x) <= 0
    THEN Append(s, x)
    ELSE Append(Insert(x, SubSeq(s, 1, Len(s) - 1)), s[Len(s)])

RECURSIVE SortAscending(_)
SortAscending(s) ==
    IF s = <<>> THEN <<>>
    ELSE LET rest == SortAscending(SubSeq(s, 1, Len(s) - 1))
             x == s[Len(s)]
             k == Cardinality({i \in DOMAIN rest : rest[i].createdAt.v <= x.createdAt.v})
         IN SubSeq(rest, 1, k) \o <<x>> \o SubSeq(rest, k + 1, Len(rest))

RECURSIVE Sort(_)
Sort(s) ==
    IF s = <<>> THEN <<>>
    ELSE Insert(s[Len(s)], Sort(SubSeq(s, 1, Len(s) - 1)))

\* Survey.list, sent by the route with res.json
SurveyList(ioerr) ==
    /\ LET r == ReadFromFile(ioerr) IN
       resp' = IF r.k = "ok"
               THEN Json("list", Undef, Envelope(0, Arr(Sort(r.v))))
               ELSE Throw("list", Undef, r.err)
    /\ UNCHANGED <<disk, pc, newData, fileData, nextId, now,
                   authorizationMap, acked, raced, lastRole>>

\* ------------------------------------------------ GET /survey/question/:id
\* data.find((item) => item.id === id): the first match, or undefined
Find(data, id) ==
    IF \E i \in DOMAIN data : data[i].id = id
    THEN Obj(data[CHOOSE i \in DOMAIN data :
                    /\ data[i].id = id
                    /\ \A j \in DOMAIN data : data[j].id = id => i <= j])
    ELSE Undef

\* findById answering 0 with the first record for an id that is unknown
FindByIdNoMiss(data, id) ==
    IF Truthy(Find(data, id)) \/ data # <<>>
    THEN Envelope(0, IF Truthy(Find(data, id)) THEN Find(data, id)
                     ELSE Obj(data[1]))
    ELSE Envelope(404, Undef)

\* Survey.findById on the data it has read
FindById(data, id) ==
    IF Truthy(Find(data, id))
    THEN Envelope(0, Find(data, id))
    ELSE Envelope(404, Undef)

\* the route: res.status(data.code).json(data)
GetSurveyById(id, ioerr) ==
    /\ LET r == ReadFromFile(ioerr) IN
       resp' = IF r.k = "ok"
               THEN LET data == FindById(r.v, id)
                    IN StatusJson("findById", id, data.code, data)
               ELSE Throw("findById", id, r.err)
    /\ UNCHANGED <<disk, pc, newData, fileData, nextId, now,
                   authorizationMap, acked, raced, lastRole>>


\* ------------------------------------------------------- question files
\* the template literal `${surveyName}`: undefined prints as "undefined"
NameOf(surveyName) ==
    IF surveyName.t = "undef" THEN <<"undefined">> ELSE surveyName.v

\* Store.saveQuestions: a new id and createTime, written over the file
StoreSaveQuestions(questions, surveyName) ==
    /\ nextId <= MaxRecords
    /\ LET newQuestion == [id |-> Uuid(nextId),
                           createTime |-> [t |-> "iso", v |-> now],
                           questions |-> questions]
       IN disk' = WriteFile(disk, QuestionFile(NameOf(surveyName)),
                            JSONStringify(newQuestion))
    /\ nextId' = nextId + 1

\* Survey.setQuestions
SetQuestions(questions, surveyName) ==
    /\ LET arg == [questions |-> questions, surveyName |-> surveyName] IN
       IF ~Truthy(questions) \/ ~IsArray(questions)
       THEN /\ resp' = Json("setQuestions", arg, Envelope(400, Str("list")))
            /\ UNCHANGED <<disk, nextId>>
       ELSE /\ StoreSaveQuestions(questions, surveyName)
            /\ resp' = Json("setQuestions", arg, Envelope(0, Str("updated")))
    /\ UNCHANGED <<pc, newData, fileData, now, authorizationMap, acked,
                   raced, lastRole>>

\* Survey.updateQuestions: hands its arguments to Store.saveQuestions
UpdateQuestions(questions, surveyName) ==
    /\ StoreSaveQuestions(questions, surveyName)
    /\ resp' = Json("updateQuestions",
                    [questions |-> questions, surveyName |-> surveyName],
                    Envelope(0, Str("updated")))
    /\ UNCHANGED <<pc, newData, fileData, now, authorizationMap, acked,
                   raced, lastRole>>

\* Store.findByFileName: reads data/<fileName>.json; an absent file gives
\* undefined, which the caller's spread turns into no properties
FindByFileName(fileName) ==
    LET filePath == fileName \o <<".json">> IN
    IF filePath \in DOMAIN disk THEN disk[filePath].v ELSE <<>>

\* { ...data, id: file }
WithId(data, file) ==
    [k \in DOMAIN data \cup {"id"} |-> IF k = "id" THEN file ELSE data[k]]

\* the sequences that hold each element of a set once
Orders(S) ==
    {q \in [1..Cardinality(S) -> S] : \A x \in S : \E i \in DOMAIN q : q[i] = x}

\* Store.querySurveyData: the files whose name starts with
\* <surveyName>_data_, in the order fs.readdir lists them (any order)
StoreQuerySurveyData(surveyName) ==
    LET regex == NameOf(surveyName) \o <<"_data_">>
        dataFiles == {file \in DOMAIN disk : IsPrefix(regex, file)}
    IN {[i \in DOMAIN q |-> WithId(FindByFileName(q[i]), q[i])] :
            q \in Orders(dataFiles)}

\* Survey.querySurveyData
QuerySurveyData(surveyName) ==
    /\ \E data \in StoreQuerySurveyData(surveyName) :
          resp' = IF Len(data) = 0
                  THEN Json("querySurveyData", surveyName,
                            Envelope(404, Arr(<<>>)))
                  ELSE Json("querySurveyData", surveyName,
                            Envelope(0, Arr(data)))
    /\ UNCHANGED <<disk, pc, newData, fileData, nextId, now,
                   authorizationMap, acked, raced, lastRole>>

\* --------------------------------------------------------- Authorization
\* authorizationMap is an object literal: a key it does not own is looked
\* up on Object.prototype, and __proto__ is an accessor, not a slot.
ObjectPrototypeKeys == {"constructor", "toString", "valueOf"}

\* authorizationMap[key]
PropGet(o, key) ==
    IF key = "__proto__" THEN [t |-> "obj", v |-> <<>>]
    ELSE IF key \in DOMAIN o THEN o[key]
    ELSE IF key \in ObjectPrototypeKeys THEN [t |-> "function"]
    ELSE Undef

\* authorizationMap[key] = value: the __proto__ setter ignores a value
\* that is neither an object nor null
PropSet(o, key, value) ==
    IF key = "__proto__" THEN o
    ELSE [k \in DOMAIN o \cup {key} |-> IF k = key THEN value ELSE o[k]]

\* a ?? b
Coalesce(a, b) == IF a.t \in {"undef", "null"} THEN b ELSE a

\* Authorization.setRole
SetRole(userId, role) ==
    /\ LET arg == [userId |-> userId, role |-> role] IN
       IF ~Truthy(userId) \/ ~Truthy(role)
       THEN /\ resp' = Json("setRole", arg, Envelope(400, Str("ids")))
            /\ UNCHANGED <<authorizationMap, lastRole>>
       ELSE /\ authorizationMap' = PropSet(authorizationMap, userId.v, role)
            /\ lastRole' = [k \in DOMAIN lastRole \cup {userId.v} |->
                               IF k = userId.v THEN role ELSE lastRole[k]]
            /\ resp' = Json("setRole", arg, Envelope(0, Str("updated")))
    /\ UNCHANGED <<disk, pc, newData, fileData, nextId, now, acked, raced>>

\* Authorization.getRole
GetRole(userId) ==
    /\ LET arg == [userId |-> userId, role |-> Undef] IN
       IF ~Truthy(userId)
       THEN resp' = Json("getRole", arg, Envelope(400, Str("id")))
       ELSE LET role == Coalesce(PropGet(authorizationMap, userId.v), Str(""))
            IN resp' = Json("getRole", arg, Envelope(0, role))
    /\ UNCHANGED <<disk, pc, newData, fileData, nextId, now,
                   authorizationMap, acked, raced, lastRole>>

\* ------------------------------------------------------------- the clock
Tick ==
    /\ now < MaxTime
    /\ now' = now + 1
    /\ resp' = NoResp
    /\ UNCHANGED <<disk, pc, newData, fileData, nextId, authorizationMap,
                   acked, raced, lastRole>>

\* ------------------------------------------------------------------ inputs
Present == Body(Str("ann"), Num(18), Str("f"), Str("ok"))
Bodies ==
    {Present,
     [Present EXCEPT !.name = Undef],
     [Present EXCEPT !.name = Str("")],
     [Present EXCEPT !.age = Undef],
     [Present EXCEPT !.age = Num(0)],
     [Present EXCEPT !.gender = Undef],
     [Present EXCEPT !.surveyResult = Undef],
     Body(Undef, Undef, Undef, Undef)}
Ids == {Uuid(1), Uuid(2), Uuid(MaxRecords + 1)}

QuestionValues ==
    {Undef, Str("q1"), Arr(<<>>), Arr(<<"q1">>), Arr(<<"q1", "q2">>)}
SurveyNames ==
    {Undef, Str(<<"fruit">>), Str(<<"fruit", "_data_", "a">>)}
UserIds ==
    {Undef, Str(""), Str("u1"), Str("u2"), Str("constructor"),
     Str("__proto__")}
Roles == {Undef, Str(""), Str("admin"), Str("user")}

\* -------------------------------------------------------------------- Init
\* The data directory exists; survey.json is absent, or is a file that does
\* not parse.
Init ==
    /\ disk \in {<<>>, [f \in {SurveyFile} |-> [t |-> "corrupt"]]}
    /\ pc = [p \in Procs |-> "idle"]
    /\ newData = [p \in Procs |-> Undef]
    /\ fileData = [p \in Procs |-> <<>>]
    /\ nextId = 1
    /\ now = 1
    /\ authorizationMap = <<>>
    /\ resp = NoResp
    /\ acked = {}
    /\ raced = FALSE
    /\ lastRole = <<>>

Next ==
    \/ \E p \in Procs, body \in Bodies : PostSurvey(p, body)
    \/ \E p \in Procs, ioerr \in BOOLEAN : StoreSaveRead(p, ioerr)
    \/ \E p \in Procs : StoreSaveWrite(p)
    \/ \E ioerr \in BOOLEAN : SurveyList(ioerr)
    \/ \E id \in Ids, ioerr \in BOOLEAN : GetSurveyById(id, ioerr)
    \/ Tick

Spec == Init /\ [][Next]_vars

NextQuestions ==
    \/ \E q \in QuestionValues, n \in SurveyNames : SetQuestions(q, n)
    \/ \E q \in QuestionValues, n \in SurveyNames : UpdateQuestions(q, n)
    \/ \E n \in SurveyNames : QuerySurveyData(n)
    \/ Tick

SpecQuestions == Init /\ [][NextQuestions]_vars

NextAuthorization ==
    \/ \E u \in UserIds, r \in Roles : SetRole(u, r)
    \/ \E u \in UserIds : GetRole(u)

SpecAuthorization == Init /\ [][NextAuthorization]_vars

\* ================================================================ claims
BodyFields == {"name", "age", "gender", "surveyResult"}
HasAbsent(o) == \E f \in BodyFields : o[f].t = "undef"
AllTruthy(o) == \A f \in BodyFields : Truthy(o[f])
ReadFailed == resp.kind = "throw" /\ resp.err \in {"EIO", "SyntaxError"}
StaleWrite(p) == pc[p] = "write" /\ pc'[p] = "idle" /\ fileData[p] # Content
Count(s, x) == Cardinality({i \in DOMAIN s : s[i] = x})
Pos(s, x) == CHOOSE i \in DOMAIN s : s[i] = x

\* C1: a submit in which one of name, age, gender, surveyResult is absent is
\* answered with status 400, code 400 and null data; the step leaves the
\* data directory as it was and starts no save.
C1_MissingFieldRejected ==
    [][(resp'.op = "submit" /\ HasAbsent(resp'.arg.v)) =>
          /\ resp'.kind = "sent" /\ resp'.status = 400
          /\ resp'.code = 400 /\ resp'.data = Null
          /\ disk' = disk /\ pc' = pc]_vars

C1_Witness ==
    /\ resp.op = "submit" /\ HasAbsent(resp.arg.v) /\ resp.code = 400
    /\ Len(Content) >= 1

\* C2 as stated: every submit with all four fields present that is answered
\* is answered code 0 with a record that is then persisted, and a list()
\* made after a submit has answered holds that submit's record.
C2_SubmitThenListed ==
    /\ (resp.op = "submit" /\ resp.kind = "sent" /\ AllTruthy(resp.arg.v)) =>
          resp.code = 0 /\ resp.data.v \in Range(Content)
    /\ (resp.op = "list" /\ resp.kind = "sent") =>
          \A r \in acked : r \in Range(resp.data.v)

\* C2 amended: a submit whose four fields are present and truthy is taken and
\* builds a record with the submitted fields; its write step answers code 0
\* with that record and sets the file to what the submit had read plus that
\* one record, whose id differs from every other id in the file; and as long
\* as no write was made from a stale read, every answered record is in the
\* file and in every list().
C2_SubmitAppendsOne ==
    [][/\ \A p \in Procs :
            /\ (pc[p] = "idle" /\ pc'[p] = "read") =>
                  /\ resp'.op = "accepted" /\ AllTruthy(resp'.arg.v)
                  /\ \A f \in BodyFields : newData'[p][f] = resp'.arg.v[f]
            /\ (pc[p] = "write" /\ pc'[p] = "idle") =>
                  /\ resp'.op = "submit" /\ resp'.kind = "sent"
                  /\ resp'.status = 200 /\ resp'.code = 0
                  /\ resp'.data = Obj(newData[p])
                  /\ Content' = Append(fileData[p], newData[p])
                  /\ Count(Content', newData[p]) = 1
                  /\ \A i \in DOMAIN fileData[p] :
                        fileData[p][i].id # newData[p].id
       /\ (resp'.op = "submit" /\ resp'.kind = "sent"
             /\ AllTruthy(resp'.arg.v)) => resp'.code = 0
       /\ ~raced' =>
            /\ \A r \in acked' : Count(Content', r) = 1
            /\ (resp'.op = "list" /\ resp'.kind = "sent") =>
                  \A r \in acked' : r \in Range(resp'.data.v)]_vars

C2_Witness ==
    /\ resp.op = "list" /\ resp.kind = "sent" /\ ~raced
    /\ Cardinality(acked) = 2 /\ Len(resp.data.v) = 2

\* C3 as stated: a record that was persisted is in survey.json in every
\* later state, also when the reads and writes of submits interleave.
C3_NeverDeleted == \A r \in acked : r \in Range(Content)

\* C3 amended: a step keeps every record of survey.json, unchanged and in
\* place, unless it is the write of a submit whose read is stale (another
\* submit wrote after it read); that write drops what was written in between.
C3_KeptUnlessStaleWrite ==
    [][(~ \E p \in Procs : StaleWrite(p)) => IsPrefix(Content, Content')]_vars

C3_Witness == Len(Content) = 2 /\ ~raced /\ resp.op = "submit"

\* C4: list() answers code 0 with the persisted records, each as often as in
\* the file, by createdAt descending, records of equal createdAt in file order.
C4_ListSortedStable ==
    (resp.op = "list" /\ resp.kind = "sent") =>
        LET d == resp.data.v IN
        /\ resp.code = 0 /\ resp.status = 200 /\ IsArray(resp.data)
        /\ Len(d) = Len(Content)
        /\ \A r \in Range(d) \cup Range(Content) : Count(d, r) = Count(Content, r)
        /\ \A i, j \in DOMAIN d :
              i < j => d[i].createdAt.v >= d[j].createdAt.v
        /\ \A i, j \in DOMAIN Content :
              (i < j /\ Content[i].createdAt = Content[j].createdAt) =>
                  Pos(d, Content[i]) < Pos(d, Content[j])

C4_Witness ==
    /\ resp.op = "list" /\ resp.kind = "sent" /\ Len(resp.data.v) = 2
    /\ resp.data.v[1].createdAt.v > resp.data.v[2].createdAt.v
    /\ resp.data.v # Content

\* C5: findById(id) gives code 404 and no data when no persisted record has
\* the id, and code 0 with the stored record of that id when one has.
C5_FindById ==
    (resp.op = "findById" /\ ~ReadFailed) =>
        IF \E i \in DOMAIN Content : Content[i].id = resp.arg
        THEN /\ resp.code = 0
             /\ resp.data.t = "obj"
             /\ resp.data.v \in Range(Content)
             /\ resp.data.v.id = resp.arg
        ELSE resp.code = 404 /\ resp.data = Undef

C5_Witness ==
    /\ resp.op = "findById" /\ resp.code = 0
    /\ Len(Content) = 2 /\ resp.data = Obj(Content[2])

\* C6: setQuestions and updateQuestions, given questions that are absent or
\* not a sequence, answer code 400 and leave every file as it was.
C6_BadQuestionsRejected ==
    [][(resp'.op \in {"setQuestions", "updateQuestions"}
          /\ ~IsArray(resp'.arg.questions)) =>
             resp'.code = 400 /\ disk' = disk]_vars

\* C7: once questions were written for a survey name, querying the survey
\* data of that name answers code 0 with an entry that holds the written
\* questions and that surveyName; a name never written answers 404.
C7_WriteThenQuery ==
    resp.op = "querySurveyData" =>
        LET file == QuestionFile(NameOf(resp.arg)) IN
        IF file \in DOMAIN disk
        THEN /\ resp.code = 0
             /\ \E i \in DOMAIN resp.data.v :
                   LET d == resp.data.v[i] IN
                   /\ "questions" \in DOMAIN d
                   /\ "questions" \in DOMAIN disk[file].v
                   /\ d.questions = disk[file].v.questions
                   /\ "surveyName" \in DOMAIN d
                   /\ d.surveyName = resp.arg
        ELSE resp.code = 404

\* C8: getRole(u) for a non-empty u answers code 0 with the role of the last
\* setRole(u, r) that had non-empty u and r, or "" if there was none; a
\* setRole with an empty userId or role answers 400 and leaves the map alone.
C8_LastRoleWins ==
    [][/\ (resp'.op = "getRole" /\ Truthy(resp'.arg.userId)) =>
             /\ resp'.code = 0
             /\ resp'.data = IF resp'.arg.userId.v \in DOMAIN lastRole'
                             THEN lastRole'[resp'.arg.userId.v]
                             ELSE Str("")
       /\ (resp'.op = "setRole"
             /\ ~(Truthy(resp'.arg.userId) /\ Truthy(resp'.arg.role))) =>
             resp'.code = 400 /\ authorizationMap' = authorizationMap]_vars

\* C9: GET /survey/question/:id is answered with status 200 and the record
\* when a persisted record has the id, with status 404 when none has, and
\* never with another status.
C9_Status200Or404 ==
    (resp.op = "findById" /\ ~ReadFailed) =>
        /\ resp.kind = "sent"
        /\ resp.status \in {200, 404}
        /\ (resp.status = 200) = (\E i \in DOMAIN Content : Content[i].id = resp.arg)

\* C10: a read of an absent survey.json gives the empty sequence, so the
\* first save makes a file of exactly the new record; an I/O or parse failure
\* on the file leaves the handler as an error, and a save that hit one writes
\* nothing.
C10_OnlyAbsentIsEmpty ==
    [][/\ \A p \in Procs :
            /\ (pc[p] = "read" /\ pc'[p] = "write") =>
                  /\ SurveyFile \in DOMAIN disk => disk[SurveyFile].t = "json"
                  /\ fileData'[p] = Content
            /\ (pc[p] = "read" /\ pc'[p] = "idle") =>
                  /\ resp'.op = "submit" /\ resp'.kind = "throw"
                  /\ resp'.err \in {"EIO", "SyntaxError"}
            /\ (pc[p] = "write" /\ pc'[p] = "idle" /\ fileData[p] = <<>>) =>
                  /\ SurveyFile \in DOMAIN disk'
                  /\ Content' = <<newData[p]>>
       /\ (resp'.op = "list" /\ resp'.kind = "sent") =>
             /\ SurveyFile \in DOMAIN disk => disk[SurveyFile].t = "json"
             /\ SurveyFile \notin DOMAIN disk => resp'.data = Arr(<<>>)
       /\ (resp'.kind = "throw" /\ resp'.err \in {"EIO", "SyntaxError"}) =>
             disk' = disk
       /\ (SurveyFile \in DOMAIN disk /\ disk[SurveyFile].t # "json") =>
             disk' = disk]_vars

C10_Witness ==
    /\ SurveyFile \in DOMAIN disk /\ disk[SurveyFile].t = "corrupt"
    /\ resp.op = "submit" /\ resp.kind = "throw" /\ resp.err = "SyntaxError"

====
